---------------------------- MODULE Spec2Model ----------------------------
(***************************************************************************)
(* RateLimitedImageService (rate-limited-image.service.ts) in front of     *)
(* GeminiGenImageService.generateBrandingImage.                            *)
(* Spec is the limiter with its caller (ImageBrandingController); PollSpec *)
(* is GeminiGenImageService.pollTaskCompletion on its own.                 *)
(*                                                                         *)
(* Time.  The service reads Date.now() and only ever uses differences      *)
(* now - timestamp.  The model keeps every timestamp as that difference    *)
(* (its age) and every pending setTimeout as the time left until it is     *)
(* due; Tick lets one unit of time pass.  One unit is 30 s: requestWindow  *)
(* (60 000 ms) is 2 units.                                                 *)
(* A timer that is due may fire late (Tick stays enabled), as Node's do.   *)
(*                                                                         *)
(* JavaScript runs each handler to its next await without interleaving:    *)
(* one action is one such run, with every synchronous call it makes.       *)
(***************************************************************************)
EXTENDS Integers, Sequences, FiniteSets

(* ------------------------------ bounds -------------------------------- *)

\* Caller requests that arrive in one run.
MaxRequests == 4

\* Provider rate-limit failures in one run (finitely many).
MaxRateLimitFailures == 1

\* Concurrent processQueue bodies the model can hold.
MaxLoops == 2

\* Ages of queued items are kept up to this many units (older is "older").
MaxQueueAge == 1

\* maxRequestsPerMinute is 5 in the service; the model runs it with 2.
maxRequestsPerMinute == 2

\* The ceiling of "retryAfter > 300" is 300 s in the service; the model runs
\* it with 3 units, and retry hints of 1, 3 and 4 units.
maxRetryAfter == 3

(* ----------------------------- constants ------------------------------ *)

\* 60 * 1000 ms, in units of 30 s.
requestWindow == 2


\* "|| 60000" of getRetryAfterTime, in units of 30 s.
defaultRetryWait == 2

Requests == 1..MaxRequests
LoopIds == 1..MaxLoops
\* Sentinels: no value, and a value that is not a number.
None == 0 - 1

Garbage == 0 - 2

VARIABLES
    downstream,         \* what geminiGenService.generateBrandingImage is
    requestTimestamps,  \* Seq of [age, owner]: owner is the request that recorded it
    requestQueue,       \* Seq of QueuedRequest: [id, age, priority]
    isProcessingQueue,
    apiKey,             \* GeminiGenImageService.apiKey is set (isAvailable())
    loops,              \* processQueue bodies: [pc, item, timer]
    req,                \* each caller's promise / position
    rlFailures,         \* provider rate-limit failures so far
    rlBudget,           \* provider rate-limit failures this run can have
    requeued,           \* requests re-queued after a rate limit, not yet retried, in that order
    callStarts,         \* ages (< requestWindow) of the downstream calls started
    attempts,           \* downstream calls started per request
    drained,            \* requests the drain loop has dequeued and dispatched
    owed,               \* <<a, b>>: a failed on a rate limit while b waited, a not yet retried
    holdoff,            \* time left of the last retry hint given for a request
    surfaced,           \* [id, hint]: rate-limit failures the caller was handed
    poll                \* one run of GeminiGenImageService.pollTaskCompletion

\* The variables of RateLimitedImageService and its caller.
limiterVars ==
    <<downstream, apiKey, requestTimestamps, requestQueue, isProcessingQueue, loops,
      req, rlFailures, rlBudget, requeued, callStarts, attempts, drained, owed,
      holdoff, surfaced>>

vars == <<limiterVars, poll>>

(* ------------------------------ helpers ------------------------------- *)

Max(a, b) == IF a >= b THEN a ELSE b

Min(a, b) == IF a <= b THEN a ELSE b

\* The loop holds no queue item.
NoItem == [id |-> 0, age |-> 0, priority |-> 0]

IdleLoop == [pc |-> "idle", item |-> NoItem, timer |-> 0]

InFlight(r) == req[r] \in {"fast", "drain"}

Settled(r) == req[r] \in {"ok", "fail429", "failOther", "surfaced", "rejected", "cancelled"}

Pending(r) == req[r] \in {"fast", "queued", "drain"}

QueueIds(q) == {q[i].id : i \in 1..Len(q)}

(* ------------------------- errors and results ------------------------- *)

\* An error thrown by the downstream call, as far as the service reads it:
\*   marker   message includes 'Too Many Requests' / '429' / 'RATE_LIMIT_ERROR'
\*   status   error.response.status
\*   respHint first truthy of response.data.detail.retry_after,
\*            response.data.retry_after, headers['retry-after'|'Retry-After']
\*            (None: absent, Garbage: not a number)
\*   msgHint  the number after "retry_after" in the message (None: absent)
Errors ==
    { [marker |-> TRUE,  status |-> 429, respHint |-> None,              msgHint |-> None],
      [marker |-> FALSE, status |-> 429, respHint |-> 1,                 msgHint |-> None],
      [marker |-> TRUE,  status |-> 500, respHint |-> None,              msgHint |-> 1],
      [marker |-> TRUE,  status |-> 429, respHint |-> Garbage,           msgHint |-> None],
      [marker |-> TRUE,  status |-> 429, respHint |-> maxRetryAfter,     msgHint |-> None],
      [marker |-> TRUE,  status |-> 429, respHint |-> maxRetryAfter + 1, msgHint |-> None],
      [marker |-> FALSE, status |-> 500, respHint |-> None,              msgHint |-> None] }

\* What the provider does with one generation: the image, HTTP 429 with a
\* retry_after, or any other failure (job failed, poll timeout, no key ...).
ProviderOutcomes ==
    { [kind |-> "done",  hint |-> None],
      [kind |-> "429",   hint |-> 1],
      [kind |-> "other", hint |-> None] }

isRateLimitError(error) == error.marker \/ error.status = 429

extractRetryAfter(error) ==
    IF error.respHint \in {None, Garbage} THEN 0 ELSE error.respHint

\* The retry hint an error carries, wherever it carries it (None: nowhere).
HintOf(error) ==
    IF error.respHint \notin {None, Garbage} THEN error.respHint ELSE error.msgHint

\* GeminiGenImageService.generateBrandingImage: the whole body is inside
\* try/catch and the catch returns { success: false, error }, so every
\* provider outcome comes back as a fulfilled value.
GeminiGenResult(po) ==
    CASE po.kind = "done" -> "ok"
      [] po.kind = "429"  -> "fail429"
      [] OTHER            -> "failOther"

(* ---------------------------- rate window ----------------------------- *)

cleanOldTimestamps(ts) == SelectSeq(ts, LAMBDA e : e.age < requestWindow)

canMakeRequest(ts) == Len(cleanOldTimestamps(ts)) < maxRequestsPerMinute

addRequestTimestamp(ts, r) == Append(ts, [age |-> 0, owner |-> r])

\* Mutant: no test of the capacity before the subtraction.
getNextAvailableTimeNoCapTest(ts) ==
    LET c == cleanOldTimestamps(ts)
    IN  IF c = <<>> THEN 0 ELSE Max(0, requestWindow - c[1].age)

\* oldestRequest + requestWindow - Date.now(), on the cleaned array.
getNextAvailableTime(ts) ==
    LET c == cleanOldTimestamps(ts)
    IN  IF Len(c) < maxRequestsPerMinute THEN 0
        ELSE Max(0, requestWindow - c[1].age)

\* Lines 250-265: the status object (each call cleans the window first).
getRateLimitStatus(ts, q) ==
    LET c == cleanOldTimestamps(ts)
    IN  [requestsInCurrentWindow |-> Len(c),
         maxRequestsPerMinute |-> maxRequestsPerMinute,
         queueLength |-> Len(q),
         canMakeRequest |-> canMakeRequest(c),
         nextAvailableIn |-> getNextAvailableTime(c)]

\* this.requestTimestamps.pop()
popTimestamp(ts) == IF ts = <<>> THEN ts ELSE SubSeq(ts, 1, Len(ts) - 1)

exceedsMaxWait(retryAfter) == retryAfter > maxRetryAfter

getRetryAfterTime(error, ts) ==
    IF error.msgHint # None THEN error.msgHint
    ELSE IF getNextAvailableTime(ts) # 0 THEN getNextAvailableTime(ts)
    ELSE defaultRetryWait

\* requestTimestamps after getRetryAfterTime: getNextAvailableTime, which
\* cleans the window, is reached only when the message holds no retry_after.
cleanedByGetRetryAfterTime(error, ts) ==
    IF error.msgHint # None THEN ts ELSE cleanOldTimestamps(ts)

(* ------------------------------- queue -------------------------------- *)

\* Array.prototype.sort((a, b) => a.timestamp - b.timestamp): stable, ascending
\* timestamp, that is descending age.
RECURSIVE InsertByTimestamp(_, _)
InsertByTimestamp(sorted, item) ==
    IF sorted = <<>> THEN <<item>>
    ELSE IF Head(sorted).age >= item.age
         THEN <<Head(sorted)>> \o InsertByTimestamp(Tail(sorted), item)
         ELSE <<item>> \o sorted

RECURSIVE sortByTimestamp(_)
sortByTimestamp(q) ==
    IF q = <<>> THEN <<>>
    ELSE InsertByTimestamp(sortByTimestamp(SubSeq(q, 1, Len(q) - 1)), q[Len(q)])

\* Mutant: the new request is put in front of the queue.
pushRequestFront(q, r) == <<[id |-> r, age |-> 0, priority |-> 1]>> \o q

\* this.requestQueue.push({ timestamp: Date.now(), ..., priority: 1 })
pushRequest(q, r) == Append(q, [id |-> r, age |-> 0, priority |-> 1])

\* Mutant: the failed item is put back twice.
requeueFrontTwice(q, item) == <<item, item>> \o q

\* this.requestQueue.unshift(queueItem)
requeueFront(q, item) == <<item>> \o q

(***************************************************************************)
(* The state the synchronous helpers below read and write, as one record.  *)
(***************************************************************************)
Cur ==
    [ ts |-> requestTimestamps, q |-> requestQueue, flag |-> isProcessingQueue,
      loops |-> loops, req |-> req, rl |-> rlFailures, calls |-> callStarts,
      attempts |-> attempts, drained |-> drained, owed |-> owed,
      holdoff |-> holdoff, surfaced |-> surfaced, requeued |-> requeued ]

Set(s) ==
    /\ requestTimestamps' = s.ts
    /\ requestQueue' = s.q
    /\ isProcessingQueue' = s.flag
    /\ loops' = s.loops
    /\ req' = s.req
    /\ rlFailures' = s.rl
    /\ callStarts' = s.calls
    /\ attempts' = s.attempts
    /\ drained' = s.drained
    /\ owed' = s.owed
    /\ holdoff' = s.holdoff
    /\ surfaced' = s.surfaced
    /\ requeued' = s.requeued
    /\ UNCHANGED <<downstream, apiKey, rlBudget, poll>>

\* Requests waiting in the queue that no downstream call was ever made for.
WaitingFirst(s) == {b \in QueueIds(s.q) : s.attempts[b] = 0}

\* A downstream call for r starts now.
StartCall(s, r) ==
    [s EXCEPT !.calls = Append(@, 0),
              !.attempts[r] = @ + 1,
              !.requeued = SelectSeq(@, LAMBDA x : x # r),
              !.owed = {x \in @ : x.a # r}]

\* The provider has rate-limited the call of r; hint is its retry hint.
NoteRateLimit(s, r, hint) ==
    [s EXCEPT !.rl = @ + 1,
              !.requeued = Append(@, r),
              !.owed = @ \cup {[a |-> r, b |-> b] : b \in WaitingFirst(s)},
              !.holdoff[r] = IF hint = None THEN 0 ELSE hint]

\* The caller of r is handed the rate-limit failure.
NoteSurfaced(s, r, hint) ==
    [s EXCEPT !.surfaced = @ \cup {[id |-> r, hint |-> hint]}, !.holdoff[r] = 0,
              !.requeued = SelectSeq(@, LAMBDA x : x # r)]

(* --------------------------- processQueue ----------------------------- *)

\* Mutant: the call is not awaited; the next queued request is started too.
DrainDispatchNoAwait(l, s) ==
    LET item == Head(s.q)
        r    == item.id
        s1   == [StartCall(s, r) EXCEPT
                    !.q = Tail(s.q),
                    !.ts = cleanOldTimestamps(addRequestTimestamp(s.ts, r)),
                    !.loops[l] = [pc |-> "calling", item |-> item, timer |-> 0],
                    !.req[r] = "drain",
                    !.drained = @ \cup {r}]
    IN  IF s1.q = <<>> THEN s1
        ELSE [StartCall(s1, Head(s1.q).id) EXCEPT
                 !.q = Tail(s1.q),
                 !.req[Head(s1.q).id] = "drain"]

\* Lines 207-215: shift the head, record the admission, log the status
\* (getRateLimitStatus cleans the window) and start the downstream call.
DrainDispatch(l, s) ==
    LET item == Head(s.q)
        r    == item.id
    IN  [StartCall(s, r) EXCEPT
            !.q = Tail(s.q),
            !.ts = cleanOldTimestamps(addRequestTimestamp(s.ts, r)),
            !.loops[l] = [pc |-> "calling", item |-> item, timer |-> 0],
            !.req[r] = "drain",
            !.drained = @ \cup {r}]

\* Mutant: the loop ends without clearing isProcessingQueue.
LoopExitKeepsFlag(l, s) == [s EXCEPT !.loops[l] = IdleLoop]

\* Lines 243-244.
LoopExit(l, s) == [s EXCEPT !.flag = FALSE, !.loops[l] = IdleLoop]

\* Mutant: the loop does not wait for a window slot.
LoopTopNoWait(l, s) ==
    IF s.q = <<>> THEN LoopExit(l, s)
    ELSE DrainDispatch(l, [s EXCEPT !.ts = cleanOldTimestamps(@)])

\* Lines 199-205: the while test and the wait for a window slot.
LoopTop(l, s) ==
    IF s.q = <<>> THEN LoopExit(l, s)
    ELSE LET waitTime == getNextAvailableTime(s.ts)
             s1 == [s EXCEPT !.ts = cleanOldTimestamps(@)]
         IN  IF waitTime > 0
             THEN [s1 EXCEPT !.loops[l] = [pc |-> "slotWait", item |-> NoItem, timer |-> waitTime]]
             ELSE DrainDispatch(l, s1)

\* Lines 207-208 after the wait: nothing is re-checked but the queue.
AfterSlotWait(l, s) ==
    IF s.q = <<>> THEN LoopExit(l, s) ELSE DrainDispatch(l, s)

\* Mutant: the guard does not look at isProcessingQueue.
processQueueGuardNoFlag(flag, q) == q = <<>>

\* Line 192: the guard of processQueue.
processQueueGuard(flag, q) == flag \/ q = <<>>

FreeLoops(s) == {l \in LoopIds : s.loops[l].pc = "idle"}

processQueue(s) ==
    IF processQueueGuard(s.flag, s.q) \/ FreeLoops(s) = {} THEN s
    ELSE LET l == CHOOSE x \in FreeLoops(s) : \A y \in FreeLoops(s) : x <= y
         IN  LoopTop(l, [s EXCEPT !.flag = TRUE])

\* Mutant: the request is queued but processQueue is not called.
queueRequestNoDrain(s, r) ==
    [s EXCEPT !.q = sortByTimestamp(pushRequest(s.q, r)),
              !.ts = cleanOldTimestamps(@),
              !.req[r] = "queued"]

\* Lines 165-186: push, sort, log the status, start the drain loop.
queueRequest(s, r) ==
    processQueue([s EXCEPT !.q = sortByTimestamp(pushRequest(s.q, r)),
                           !.ts = cleanOldTimestamps(@),
                           !.req[r] = "queued"])

(* ------------------------- pollTaskCompletion ------------------------- *)

\* The delay of each attempt, in seconds (lines 262-267).
pollingSchedule == <<0, 38, 25, 30>>

\* generated_image arrays of a status response (their image_url fields).
Images == {<<>>, <<"url1">>, <<"url2", "url1">>}

\* What one axios.get of the status URL gives: a response with task.status
\* (0 pending, 1 processing, 2 completed, 3 and 4 failed, 5 for any other
\* value), or an error (network failure, timeout, HTTP error status).
StatusResponses ==
    {[kind |-> "response", status |-> st, images |-> <<>>] : st \in {0, 1, 3, 4, 5}}
        \cup {[kind |-> "response", status |-> 2, images |-> im] : im \in Images}

QueryError == [kind |-> "error", status |-> None, images |-> <<>>]

NoResult == [kind |-> "none", val |-> "", cause |-> ""]

PollIdle ==
    [pc |-> "idle", attempt |-> 0, totalTime |-> 0, log |-> <<>>,
     responses |-> <<>>, result |-> NoResult]

PollEvent(ev, n) == [ev |-> ev, n |-> n]

\* Line 281: the status query of this attempt is sent.
PollQuery(p, a) ==
    [p EXCEPT !.pc = "querying", !.attempt = a, !.log = Append(@, PollEvent("query", a))]

PollThrow(p, msg, cause) ==
    [p EXCEPT !.pc = "thrown", !.result = [kind |-> "error", val |-> msg, cause |-> cause]]

\* Mutant: no attempt waits before its query.
PollIterationNoWait(p, a) ==
    IF a > Len(pollingSchedule) THEN PollThrow(p, "did not complete", "")
    ELSE PollQuery(p, a)

\* Lines 271-277 and 329: the next entry of the schedule, or the end of it.
PollIteration(p, a) ==
    IF a > Len(pollingSchedule) THEN PollThrow(p, "did not complete", "")
    ELSE IF pollingSchedule[a] > 0
         THEN [p EXCEPT !.pc = "waiting", !.attempt = a,
                        !.log = Append(@, PollEvent("wait", pollingSchedule[a]))]
         ELSE PollQuery(p, a)

\* Mutant: whatever is caught ends polling.
PollCatchThrows(p, cause) == PollThrow(p, "Polling failed", cause)

\* Lines 320-326: the catch around one attempt.
PollCatch(p, cause) ==
    IF p.attempt = Len(pollingSchedule)
    THEN PollThrow(p, "Polling failed", cause)
    ELSE PollIteration(p, p.attempt + 1)

\* Mutant: an exhausted schedule is reported as a failed task.
PollNotDoneAsFailed(p, cause) ==
    IF p.attempt >= Len(pollingSchedule)
    THEN PollCatch(p, "Task failed")
    ELSE PollIteration(p, p.attempt + 1)

\* Lines 303-318: pending, processing or unknown status.
PollNotDone(p, cause) ==
    IF p.attempt >= Len(pollingSchedule)
    THEN PollCatch(p, cause)
    ELSE PollIteration(p, p.attempt + 1)

\* The text of the error a run has thrown: `${val} after ${attempts} attempts
\* (${elapsed}s total): ${cause}` (line 322; totalTime and the schedule do
\* not change after the throw).
PollErrorMessage(p) ==
    [val |-> p.result.val, attempts |-> Len(pollingSchedule),
     elapsed |-> p.totalTime, cause |-> p.result.cause]

\* Mutant: a pending job is asked again, whatever the attempt.
PollHandlePollsOn(p, resp) ==
    IF resp.status = 2 /\ resp.images # <<>>
    THEN [p EXCEPT !.pc = "returned",
                   !.result = [kind |-> "image", val |-> resp.images[1], cause |-> ""]]
    ELSE PollQuery(p, p.attempt)

\* Mutant: an unknown status ends polling at once.
PollHandleUnknownThrows(p, resp) ==
    CASE resp.status = 2 ->
            IF resp.images # <<>>
            THEN [p EXCEPT !.pc = "returned",
                           !.result = [kind |-> "image", val |-> resp.images[1], cause |-> ""]]
            ELSE PollCatch(p, "no generated images")
      [] resp.status \in {3, 4} -> PollCatch(p, "Task failed")
      [] resp.status \in {0, 1} -> PollNotDone(p, "still pending")
      [] OTHER -> PollThrow(p, "Polling failed", "unknown status")

\* Lines 290-318: what the loop does with a status response.
PollHandle(p, resp) ==
    CASE resp.status = 2 ->
            IF resp.images # <<>>
            THEN [p EXCEPT !.pc = "returned",
                           !.result = [kind |-> "image", val |-> resp.images[1], cause |-> ""]]
            ELSE PollCatch(p, "no generated images")
      [] resp.status \in {3, 4} -> PollCatch(p, "Task failed")
      [] resp.status \in {0, 1} -> PollNotDone(p, "still pending")
      [] OTHER -> PollNotDone(p, "unknown status")

\* The query of this attempt has been answered (by a response or an error).
PollAnswered(p, resp) ==
    [p EXCEPT !.responses = Append(@, resp),
              !.log = Append(@, PollEvent("answer", p.attempt))]

(* ------------------------------ actions ------------------------------- *)

\* The services as constructed, for a run with this many provider rate limits.
InitWith(budget) ==
    /\ downstream \in {"GeminiGenImageService", "throwing"}
    /\ apiKey \in BOOLEAN
    /\ requestTimestamps = <<>>
    /\ requestQueue = <<>>
    /\ isProcessingQueue = FALSE
    /\ loops = [l \in LoopIds |-> IdleLoop]
    /\ req = [r \in Requests |-> "new"]
    /\ rlFailures = 0
    /\ rlBudget = budget
    /\ requeued = <<>>
    /\ callStarts = <<>>
    /\ attempts = [r \in Requests |-> 0]
    /\ drained = {}
    /\ owed = {}
    /\ holdoff = [r \in Requests |-> 0]
    /\ surfaced = {}
    /\ poll = PollIdle

Init == InitWith(MaxRateLimitFailures)

\* Lines 42-79 up to the await of line 51, or all of the else branch.
\* Requests are numbered in the order they arrive.
generateBrandingImage(r) ==
    /\ req[r] = "new"
    /\ \A r2 \in Requests : r2 < r => req[r2] # "new"
    /\ LET s0 == [Cur EXCEPT !.ts = cleanOldTimestamps(@)]
       IN  IF canMakeRequest(requestTimestamps)
           THEN Set([StartCall(s0, r) EXCEPT !.ts = addRequestTimestamp(@, r),
                                             !.req[r] = "fast"])
           ELSE Set(queueRequest(s0, r))

\* Mutant: the controller calls the service without asking isAvailable().
generateImageNoCheck(r) == generateBrandingImage(r)

\* ImageBrandingController.generateImage: 503 when the service is not
\* available (no API key), else the call of line 109.
generateImage(r) ==
    IF apiKey
    THEN generateBrandingImage(r)
    ELSE /\ req[r] = "new"
         /\ \A r2 \in Requests : r2 < r => req[r2] # "new"
         /\ Set([Cur EXCEPT !.req[r] = "unavailable"])

\* The values the downstream call can fulfil with.  Without an API key
\* GeminiGenImageService throws at line 60 and its catch returns the failure.
ReturnValues ==
    IF downstream = "GeminiGenImageService"
    THEN IF apiKey
         THEN {[value |-> GeminiGenResult(po), hint |-> po.hint] : po \in ProviderOutcomes}
         ELSE {[value |-> "failOther", hint |-> None]}
    ELSE {[value |-> "ok", hint |-> None]}

\* A fulfilled value is handed to the caller as it is, { success: false } too.
Fulfil(s, r, res) ==
    IF res.value = "fail429"
    THEN [NoteSurfaced(NoteRateLimit(s, r, res.hint), r, res.hint) EXCEPT !.req[r] = res.value]
    ELSE [s EXCEPT !.req[r] = res.value]

\* Line 51: the awaited call fulfils.
FastReturns(r, res) ==
    /\ req[r] = "fast"
    /\ res.value = "fail429" => rlFailures < rlBudget
    /\ Set(Fulfil(Cur, r, res))

\* Lines 52-73: the awaited call rejects.
FastThrows(r, error) ==
    /\ downstream = "throwing"
    /\ req[r] = "fast"
    /\ IF isRateLimitError(error)
       THEN /\ rlFailures < rlBudget
            /\ LET s0 == NoteRateLimit(Cur, r, HintOf(error))
                   s1 == [s0 EXCEPT !.ts = popTimestamp(@)]
               IN  IF exceedsMaxWait(extractRetryAfter(error))
                   THEN Set([NoteSurfaced(s1, r, HintOf(error)) EXCEPT !.req[r] = "surfaced"])
                   ELSE Set(queueRequest(s1, r))
       ELSE Set([Cur EXCEPT !.req[r] = "rejected"])

\* Lines 215-216: the awaited call fulfils, the item is resolved, next pass.
DrainReturns(l, res) ==
    /\ loops[l].pc = "calling"
    /\ res.value = "fail429" => rlFailures < rlBudget
    /\ Set(LoopTop(l, Fulfil(Cur, loops[l].item.id, res)))

\* Lines 219-240: the awaited call rejects.
DrainThrows(l, error) ==
    /\ downstream = "throwing"
    /\ loops[l].pc = "calling"
    /\ LET item == loops[l].item
           r    == item.id
       IN  IF isRateLimitError(error)
           THEN /\ rlFailures < rlBudget
                /\ LET s0  == NoteRateLimit(Cur, r, HintOf(error))
                       ts1 == popTimestamp(requestTimestamps)
                   IN  Set([s0 EXCEPT
                              !.ts = cleanedByGetRetryAfterTime(error, ts1),
                              !.q = requeueFront(@, item),
                              !.req[r] = "queued",
                              !.loops[l] = [pc |-> "retryWait", item |-> NoItem,
                                            timer |-> getRetryAfterTime(error, ts1)]])
           ELSE Set(LoopTop(l, [Cur EXCEPT !.req[r] = "rejected"]))

\* Line 204: the timer of the slot wait fires.
WakeSlotWait(l) ==
    /\ loops[l].pc = "slotWait"
    /\ loops[l].timer = 0
    /\ Set(AfterSlotWait(l, Cur))

\* Lines 233-235: the timer of the retry wait fires; continue.
WakeRetryWait(l) ==
    /\ loops[l].pc = "retryWait"
    /\ loops[l].timer = 0
    /\ Set(LoopTop(l, Cur))

\* Mutant: the queue is emptied but the queued promises are not rejected.
clearQueueKeepsPending ==
    /\ requestQueue # <<>>
    /\ Set([Cur EXCEPT !.q = <<>>])

\* Mutant: the clear also resets the drain flag.
clearQueueResetsFlag ==
    /\ requestQueue # <<>>
    /\ LET gone == QueueIds(requestQueue)
       IN  Set([Cur EXCEPT
                  !.req = [r \in Requests |-> IF r \in gone THEN "cancelled" ELSE @[r]],
                  !.q = <<>>,
                  !.flag = FALSE])

\* Lines 283-289.
clearQueue ==
    /\ requestQueue # <<>>
    /\ LET gone == QueueIds(requestQueue)
       IN  Set([Cur EXCEPT
                  !.req = [r \in Requests |-> IF r \in gone THEN "cancelled" ELSE @[r]],
                  !.q = <<>>,
                  !.requeued = SelectSeq(@, LAMBDA x : x \notin gone),
                  !.owed = {x \in @ : ~(x.b \in gone /\ attempts[x.b] = 0)},
                  !.holdoff = [r \in Requests |-> IF r \in gone THEN 0 ELSE @[r]]])

\* One unit of time passes.
AgeItem(item) == IF item = NoItem THEN item ELSE [item EXCEPT !.age = Min(@ + 1, MaxQueueAge)]

Tick ==
    /\ requestTimestamps' =
         [i \in 1..Len(requestTimestamps) |->
            [requestTimestamps[i] EXCEPT !.age = Min(@ + 1, requestWindow)]]
    /\ requestQueue' = [i \in 1..Len(requestQueue) |-> AgeItem(requestQueue[i])]
    /\ loops' = [l \in LoopIds |->
                   [loops[l] EXCEPT !.timer = Max(@ - 1, 0), !.item = AgeItem(@)]]
    /\ callStarts' = SelectSeq([i \in 1..Len(callStarts) |-> callStarts[i] + 1],
                               LAMBDA a : a < requestWindow)
    /\ holdoff' = [r \in Requests |-> Max(holdoff[r] - 1, 0)]
    /\ UNCHANGED <<downstream, apiKey, rlBudget, requeued, poll, isProcessingQueue, req, rlFailures, attempts, drained,
                   owed, surfaced>>

Next ==
    \/ \E r \in Requests : generateImage(r)
    \/ \E r \in Requests, res \in ReturnValues : FastReturns(r, res)
    \/ \E r \in Requests, error \in Errors : FastThrows(r, error)
    \/ \E l \in LoopIds, res \in ReturnValues : DrainReturns(l, res)
    \/ \E l \in LoopIds, error \in Errors : DrainThrows(l, error)
    \/ \E l \in LoopIds : WakeSlotWait(l)
    \/ \E l \in LoopIds : WakeRetryWait(l)
    \/ clearQueue
    \/ Tick

Spec == Init /\ [][Next]_vars

(***************************************************************************)
(* The limiter in front of a downstream that rejects, with one provider    *)
(* rate limit more: two requests can be waiting for their retry at once.   *)
(***************************************************************************)
RequeueInit == InitWith(MaxRateLimitFailures + 1) /\ downstream = "throwing" /\ apiKey

RequeueSpec == RequeueInit /\ [][Next]_vars

(***************************************************************************)
(* pollTaskCompletion on its own: one task, every sequence of answers of   *)
(* the status endpoint.  The limiter stays as constructed.                 *)
(***************************************************************************)
PollInit == Init /\ downstream = "GeminiGenImageService" /\ apiKey

\* Lines 255-281: the call, up to the first await.
pollTaskCompletion ==
    /\ poll.pc = "idle"
    /\ poll' = PollIteration(poll, 1)
    /\ UNCHANGED limiterVars

\* Lines 275-281: the timer of the wait fires, the query is sent.
WakePollWait ==
    /\ poll.pc = "waiting"
    /\ poll' = PollQuery([poll EXCEPT !.totalTime = @ + pollingSchedule[poll.attempt]],
                         poll.attempt)
    /\ UNCHANGED limiterVars

\* Lines 281-318: the status endpoint answers.
QueryResponds(resp) ==
    /\ poll.pc = "querying"
    /\ poll' = PollHandle(PollAnswered(poll, resp), resp)
    /\ UNCHANGED limiterVars

\* Line 281 throws (network error, timeout of 10 s, HTTP error status).
QueryFails ==
    /\ poll.pc = "querying"
    /\ poll' = PollCatch(PollAnswered(poll, QueryError), "query error")
    /\ UNCHANGED limiterVars

PollNext ==
    \/ pollTaskCompletion
    \/ WakePollWait
    \/ \E resp \in StatusResponses : QueryResponds(resp)
    \/ QueryFails

PollSpec == PollInit /\ [][PollNext]_vars


(***************************************************************************)
(* Fairness: time passes, and while a started call can complete or a due   *)
(* timer can fire, one of them does (the provider answers in finite time,  *)
(* the event loop runs).  Arrivals and clearQueue are the callers' and are *)
(* not forced.                                                             *)
(***************************************************************************)
FastCompletes(r) ==
    \/ \E res \in ReturnValues : FastReturns(r, res)
    \/ \E error \in Errors : FastThrows(r, error)

DrainCompletes(l) ==
    \/ \E res \in ReturnValues : DrainReturns(l, res)
    \/ \E error \in Errors : DrainThrows(l, error)

\* A step of the service itself: a call completes or a due timer fires.
ServiceStep ==
    \/ \E r \in Requests : FastCompletes(r)
    \/ \E l \in LoopIds : DrainCompletes(l) \/ WakeSlotWait(l) \/ WakeRetryWait(l)

Fairness == WF_vars(Tick) /\ WF_vars(ServiceStep)

FairSpec == Spec /\ Fairness

(* ------------------------------ claims -------------------------------- *)

\* No re-queue after a provider rate limit has happened so far.
NoRequeue == downstream = "throwing" => rlFailures = 0

ActiveLoops == {l \in LoopIds : loops[l].pc # "idle"}

\* Unexpired entries of the window that request o recorded.
Live(ts, o) == Cardinality({i \in 1..Len(ts) : ts[i].owner = o /\ ts[i].age < requestWindow})

\* This step is the provider rate-limit failure of o's downstream call.
FailsNow(o) ==
    /\ InFlight(o)
    /\ rlFailures' = rlFailures + 1
    /\ req'[o] \in {"queued", "surfaced", "fail429"} \/ attempts'[o] = attempts[o] + 1

\* C1: every interval of length requestWindow holds at most
\* maxRequestsPerMinute started downstream calls.
C1_StartedCallsWithinCap == Len(callStarts) <= maxRequestsPerMinute

\* C2: at every instant at most maxRequestsPerMinute entries of
\* requestTimestamps are newer than now - requestWindow.
C2_TimestampsWithinCap ==
    Len(cleanOldTimestamps(requestTimestamps)) <= maxRequestsPerMinute

\* C3: every promise generateBrandingImage has returned eventually settles:
\* whenever some promise is pending, a moment comes at which none is (a
\* settled promise stays settled, so each pending one has settled by then).
C3_EveryPromiseSettles ==
    (\E r \in Requests : Pending(r)) ~> (\A r \in Requests : ~Pending(r))

\* C3 witness: a request that was rate-limited, re-queued and retried has settled.
C3_Witness == \E r \in Requests : attempts[r] >= 2 /\ req[r] = "ok"

\* C4: with GeminiGenImageService downstream, a provider 429 re-queues the
\* request; the caller's promise is not settled with that failure.
C4_RateLimitIsRequeued ==
    downstream = "GeminiGenImageService" => \A r \in Requests : req[r] # "fail429"

\* C5: a request whose downstream call failed on a provider rate limit (the
\* call rejected, so the service's own retry path ran) is retried before any
\* request that was waiting in the queue at that moment gets its first call.
C5_RetryBeforeWaiting ==
    downstream = "throwing" => \A x \in owed : attempts[x.b] = 0

\* C6: without re-queues, requests leave the queue in the order they entered
\* it: the queue is in arrival order and nothing still queued arrived before
\* a request the drain loop has already dispatched.
C6_QueueIsFifo ==
    NoRequeue =>
        /\ \A i, j \in 1..Len(requestQueue) : i < j => requestQueue[i].id < requestQueue[j].id
        /\ \A d \in drained : \A i \in 1..Len(requestQueue) : d < requestQueue[i].id

\* C6 witness: two queued requests have been dispatched by the drain loop.
C6_Witness == NoRequeue /\ Cardinality(drained) >= 2

\* C7: an unexpired timestamp leaves requestTimestamps only in the step in
\* which the request that recorded it fails on a provider rate limit.
C7_OnlyOwnTimestampRemoved ==
    [][Tick \/ \A o \in Requests :
          Live(requestTimestamps', o) < Live(requestTimestamps, o) => FailsNow(o)]_vars

\* C8: a request is not in a downstream call while the retry hint of its
\* last provider rate-limit failure has not run out.
C8_RetryHonoursHint == \A r \in Requests : InFlight(r) => holdoff[r] = 0

\* C9: a provider rate-limit failure reaches the caller only with a retry
\* hint above maxRetryAfter.
C9_SurfacedOnlyAboveMaxWait ==
    \A x \in surfaced : x.hint # None /\ x.hint > maxRetryAfter

\* C10: at most one processQueue body is past its guard, and it is the one
\* isProcessingQueue stands for.
C10_AtMostOneDrainLoop ==
    /\ Cardinality(ActiveLoops) <= 1
    /\ isProcessingQueue <=> ActiveLoops # {}

\* C10 witness: queueRequest has called processQueue while the loop was
\* suspended in its slot wait (two items queued behind one loop).
C10_Witness ==
    /\ Len(requestQueue) >= 2
    /\ \E l \in LoopIds : loops[l].pc = "slotWait"

\* C11: at every suspension point a non-empty requestQueue has a running
\* drain loop: isProcessingQueue is true and a processQueue body is active
\* (so the flag is never cleared, nor a request enqueued, leaving the queue
\* non-empty without a loop).
C11_QueueHasDrainLoop ==
    requestQueue # <<>> => (isProcessingQueue /\ ActiveLoops # {})

\* C11 witness: a fast-path request that failed on a provider rate limit sits
\* re-queued in the queue (it was never dequeued by the loop before).
C11_Witness ==
    /\ downstream = "throwing"
    /\ \E r \in QueueIds(requestQueue) : attempts[r] >= 1 /\ r \notin drained

\* C12: clearQueue rejects every request that is in requestQueue with the
\* cancellation error and leaves the queue empty; a cancelled request stays
\* cancelled and no downstream call is started for it afterwards.
C12_ClearRejectsAllQueued ==
    [][/\ clearQueue =>
            /\ requestQueue' = <<>>
            /\ \A r \in QueueIds(requestQueue) : req'[r] = "cancelled"
       /\ \A r \in Requests :
            req[r] = "cancelled" => req'[r] = "cancelled" /\ attempts'[r] = attempts[r]
      ]_vars

\* C12 witness: two requests have been cancelled and the drain loop that was
\* running for them has since ended.
C12_Witness ==
    /\ ~isProcessingQueue
    /\ \E r1, r2 \in Requests : r1 # r2 /\ req[r1] = "cancelled" /\ req[r2] = "cancelled"

\* C13: clearQueue leaves requestTimestamps, isProcessingQueue, the drain
\* loop and every in-flight request as they are, and no step takes a request
\* from its downstream call to the cancellation error.
C13_ClearLeavesInFlight ==
    [][/\ clearQueue =>
            /\ requestTimestamps' = requestTimestamps
            /\ isProcessingQueue' = isProcessingQueue
            /\ loops' = loops
            /\ \A r \in Requests : InFlight(r) => req'[r] = req[r]
       /\ \A r \in Requests : InFlight(r) => req'[r] # "cancelled"
      ]_vars

\* C13 witness: a queued request was dispatched once by the drain loop and is
\* still in its call, while a request that arrived after it has been cancelled.
C13_Witness ==
    \E r, c \in Requests :
        /\ r < c
        /\ req[r] = "drain" /\ attempts[r] = 1
        /\ req[c] = "cancelled"

\* This step ends r's downstream call with a failure that is not a provider
\* rate limit: the call rejected with such an error or fulfilled with one.
OtherFailureNow(r) == InFlight(r) /\ req'[r] \in {"rejected", "failOther"}

\* C14: a downstream failure that is not a provider rate limit rejects that
\* caller's promise (with the error as thrown) and no other, starts no
\* retry, and leaves the drain loop running for what is still queued.
C14_OtherFailureRejects ==
    [][\A r \in Requests : OtherFailureNow(r) =>
          /\ req'[r] = "rejected"
          /\ attempts'[r] = attempts[r]
          /\ \A r2 \in Requests \ {r} : Settled(r2)' => req'[r2] = req[r2]
          /\ requestQueue' # <<>> => ActiveLoops' # {}
      ]_vars

\* C15: every failure outcome settles the caller's promise as a rejection,
\* never as a fulfilled value, and a request is called a second time only
\* after a provider rate limit.
C15_FailuresAreRejections ==
    \A r \in Requests :
        /\ Settled(r) => req[r] \in {"ok", "rejected", "cancelled"}
        /\ attempts[r] >= 2 => rlFailures > 0

\* C16: without an API key no request is admitted: nothing is recorded in
\* requestTimestamps, nothing is queued, no drain loop runs and every request
\* made so far was refused at once.
C16_NoKeyFailsFast ==
    ~apiKey =>
        /\ requestTimestamps = <<>>
        /\ requestQueue = <<>>
        /\ ActiveLoops = {}
        /\ \A r \in Requests : req[r] \in {"new", "unavailable"}

\* C16 witness: without an API key, more requests than the window holds have
\* been made and refused.
C16_Witness == ~apiKey /\ \A r \in Requests : req[r] = "unavailable"

\* The request that arrives after maxRequestsPerMinute others.
Extra == maxRequestsPerMinute + 1

\* Only the first Extra requests have arrived and the provider has not
\* rate-limited any call.
OneExtraRequest ==
    /\ rlFailures = 0
    /\ \A r \in Requests : r > Extra => req[r] = "new"

\* C22: with the window filled by maxRequestsPerMinute admissions, one more
\* request is queued, not dispatched; while it waits the loop's timer is due
\* when the oldest admission leaves the window, and its call starts only
\* once that admission has left.
C22_ExtraWaitsForOldest ==
    [][OneExtraRequest =>
          /\ (req[Extra] = "new" /\ req'[Extra] # "new" /\ apiKey
                 /\ ~canMakeRequest(requestTimestamps))
                => (req'[Extra] = "queued" /\ attempts'[Extra] = 0)
          /\ req[Extra] = "queued" =>
                \E l \in LoopIds :
                    /\ loops[l].pc = "slotWait"
                    /\ loops[l].timer = getNextAvailableTime(requestTimestamps)
          /\ (req[Extra] = "queued" /\ req'[Extra] = "drain")
                => Len(cleanOldTimestamps(requestTimestamps)) < maxRequestsPerMinute
      ]_vars

\* C22 witness: the extra request was queued behind a full window and its
\* call has been started by the drain loop.
C22_Witness ==
    /\ OneExtraRequest
    /\ req[Extra] = "drain"
    /\ Extra \in drained

\* Ages of the recorded timestamps that are still inside the window.
LiveAges ==
    {requestTimestamps[i].age : i \in 1..Len(requestTimestamps)} \cap 0..(requestWindow - 1)

CallStartsNow(r) == attempts'[r] = attempts[r] + 1

\* C25: requests re-queued after a provider rate limit are retried in the
\* order in which they were re-queued: the retry that starts is that of the
\* request re-queued first among those still waiting for theirs.
C25_RetriesInRequeueOrder ==
    [][\A r \in Requests :
          (CallStartsNow(r) /\ \E i \in 1..Len(requeued) : requeued[i] = r)
              => requeued[1] = r
      ]_vars

\* This step is a provider rate-limit failure of r's call that carried no
\* usable retry hint and was not handed to the caller.
FailsWithoutHintNow(r) ==
    /\ FailsNow(r)
    /\ holdoff'[r] = 0
    /\ req'[r] \notin {"surfaced", "fail429"}

\* C26: after a provider rate limit without a usable retry hint the request
\* waits the fallback delay before its next call: no call for it starts in
\* the step of the failure, and in the drain loop the retry wait that begins
\* is defaultRetryWait long.
C26_FallbackDelayApplied ==
    [][\A r \in Requests : FailsWithoutHintNow(r) =>
          /\ attempts'[r] = attempts[r]
          /\ req[r] = "drain" =>
                \E l \in LoopIds : /\ loops'[l].pc = "retryWait"
                                    /\ loops'[l].timer = defaultRetryWait
      ]_vars

\* C27: a request is not dispatched before older requests that wait in
\* requestQueue: an arriving request gets its call at once only when nobody
\* waits in the queue, and the loop starts a request's first call only when
\* no request that arrived before it is left waiting for its own.  Stated
\* for runs in which the provider has not rate-limited any call.
C27_NoOvertaking ==
    [][rlFailures' = 0 => \A r \in Requests :
          /\ (req[r] = "new" /\ CallStartsNow(r)) => requestQueue = <<>>
          /\ (req[r] = "queued" /\ attempts[r] = 0 /\ CallStartsNow(r)) =>
                \A o \in QueueIds(requestQueue') : attempts[o] = 0 => o > r
      ]_vars

\* Requests whose downstream call was started by the drain loop and is in flight.
DrainCalls == {r \in Requests : req[r] = "drain"}

\* C28: the drain loop has at most one downstream call in flight, the one of
\* the item it holds; every other call in flight is a fast-path call.
C28_OneDrainCallInFlight ==
    /\ Cardinality(DrainCalls) <= 1
    /\ Cardinality({l \in LoopIds : loops[l].pc = "calling"}) <= 1
    /\ \A r \in Requests :
          r \in DrainCalls <=>
              \E l \in LoopIds : loops[l].pc = "calling" /\ loops[l].item.id = r

\* C28 witness: the loop awaits a call while another request waits in the
\* queue and the window has a free slot.
C28_Witness ==
    /\ DrainCalls # {}
    /\ requestQueue # <<>>
    /\ canMakeRequest(requestTimestamps)

\* How many items of requestQueue are r's.
TimesQueued(r) == Cardinality({i \in 1..Len(requestQueue) : requestQueue[i].id = r})

\* A drain loop holds r's item and awaits its downstream call.
HeldByLoop(r) == \E l \in LoopIds : loops[l].pc = "calling" /\ loops[l].item.id = r

\* r is in exactly the place its promise's state says.
OnePlace(r) ==
    /\ TimesQueued(r) <= 1
    /\ req[r] = "queued" <=> TimesQueued(r) = 1
    /\ req[r] = "drain" <=> HeldByLoop(r)
    /\ Settled(r) => (TimesQueued(r) = 0 /\ ~HeldByLoop(r))

\* C29: a request is waiting in requestQueue (once), or in flight in the
\* drain loop, or settled, never two of these; and a settled promise is not
\* settled again.
C29_OnePlaceOneSettlement ==
    /\ [](\A r \in Requests : OnePlace(r))
    /\ [][\A r \in Requests : Settled(r) => req'[r] = req[r]]_vars

\* C29 witness: a request the loop had dispatched was put back in front
\* after a rate limit and then cancelled by clearQueue.
C29_Witness == \E r \in drained : req[r] = "cancelled"

(* ---------------------- claims: pollTaskCompletion -------------------- *)

PollTerminated == poll.pc \in {"returned", "thrown"}

PollQueries == Len(SelectSeq(poll.log, LAMBDA e : e.ev = "query"))

\* C17: once a status query has reported the job failed (status 3 or 4),
\* that query is the last one and pollTaskCompletion has thrown.
C17_FailedStopsPolling ==
    \A i \in 1..Len(poll.responses) :
        poll.responses[i].status \in {3, 4} =>
            /\ poll.pc = "thrown"
            /\ Len(poll.responses) = i

\* C18: pollTaskCompletion sends at most 4 status queries whatever the
\* answers are, has ended once the 4th is answered, and ends with an error
\* when all 4 answers were pending.
C18_AtMostFourQueries ==
    /\ PollQueries <= 4
    /\ Len(poll.responses) = 4 => PollTerminated
    /\ (/\ Len(poll.responses) = 4
        /\ \A i \in 1..4 : poll.responses[i].status \in {0, 1})
          => poll.pc = "thrown" /\ poll.result.kind = "error"

\* C18 witness: four queries, every one answered pending or processing.
C18_Witness ==
    /\ PollTerminated
    /\ PollQueries = 4
    /\ \A i \in 1..4 : poll.responses[i].status \in {0, 1}

\* The waits the claim gives for queries 1 to 4, in seconds.
ClaimedWaits == <<0, 38, 25, 30>>

\* What a run of k queries is to look like: before query i a wait of
\* ClaimedWaits[i] (none when it is 0) that starts after answer i - 1.
RECURSIVE ClaimedLog(_)
ClaimedLog(k) ==
    IF k = 0 THEN <<>>
    ELSE ClaimedLog(k - 1)
           \o (IF ClaimedWaits[k] > 0 THEN <<PollEvent("wait", ClaimedWaits[k])>> ELSE <<>>)
           \o <<PollEvent("query", k), PollEvent("answer", k)>>

RECURSIVE SumTo(_, _)
SumTo(seq, k) == IF k = 0 THEN 0 ELSE SumTo(seq, k - 1) + seq[k]

\* The answers so far: pending k - 1 times, then completed with an image.
PendingThenDone(k) ==
    /\ Len(poll.responses) = k
    /\ \A i \in 1..(k - 1) : poll.responses[i].status \in {0, 1}
    /\ poll.responses[k].status = 2
    /\ poll.responses[k].images # <<>>

\* C19: a job pending on its first k - 1 queries and completed with an image
\* on query k gets exactly k queries, each after its scheduled wait, the
\* waits added up as elapsed time, and the image URL of query k is returned.
C19_ScheduleAndResult ==
    \A k \in 1..4 : PendingThenDone(k) =>
        /\ poll.pc = "returned"
        /\ poll.result = [kind |-> "image", val |-> poll.responses[k].images[1], cause |-> ""]
        /\ poll.log = ClaimedLog(k)
        /\ poll.totalTime = SumTo(ClaimedWaits, k)

\* C19 witness: the image arrives on the 4th query.
C19_Witness == PendingThenDone(4) /\ poll.totalTime = 93

\* C20: a status query that itself fails on attempt 1, 2 or 3 is followed by
\* the next scheduled attempt; on attempt 4 it ends polling with an error.
C20_QueryFailureConsumesAttempt ==
    \A i \in 1..Len(poll.responses) :
        poll.responses[i].kind = "error" =>
            IF i < 4
            THEN \/ Len(poll.responses) > i
                 \/ poll.pc \in {"waiting", "querying"} /\ poll.attempt = i + 1
            ELSE poll.pc = "thrown" /\ poll.result.kind = "error"

\* C20 witness: the first three queries failed and the 4th brought the image.
C20_Witness ==
    /\ poll.pc = "returned"
    /\ Len(poll.responses) = 4
    /\ \A i \in 1..3 : poll.responses[i].kind = "error"

\* The run has thrown after a 4th answer with one of these statuses.
ThrownAfterFourth(statuses) ==
    /\ poll.pc = "thrown"
    /\ Len(poll.responses) = 4
    /\ poll.responses[4].status \in statuses

\* C21: when the schedule is exhausted with the job pending or in an unknown
\* status, the error carries 93 s and 4 attempts and names a cause that the
\* error for a job reported failed does not have.
C21_TimeoutIsDistinct ==
    /\ ThrownAfterFourth({0, 1, 5}) =>
          /\ PollErrorMessage(poll).elapsed = 93
          /\ PollErrorMessage(poll).attempts = 4
          /\ PollErrorMessage(poll).cause \in {"still pending", "unknown status"}
    /\ ThrownAfterFourth({3, 4}) =>
          PollErrorMessage(poll).cause \notin {"still pending", "unknown status"}

\* C21 witness: four answers, all pending, and the error has been thrown.
C21_Witness ==
    /\ ThrownAfterFourth({0, 1})
    /\ \A i \in 1..3 : poll.responses[i].status \in {0, 1}

\* After answer i the run goes on to attempt i + 1, or, when i is the 4th,
\* has ended with an error.
ContinuesOrEnds(i) ==
    IF i < 4
    THEN \/ Len(poll.responses) > i
         \/ poll.pc \in {"waiting", "querying"} /\ poll.attempt = i + 1
    ELSE poll.pc = "thrown" /\ poll.result.kind = "error"

\* C24: an unknown status is handled as pending is: after either, attempts
\* 1 to 3 go on to the next scheduled attempt and attempt 4 ends with an
\* error; unknown statuses never bring a 5th query.
C24_UnknownAsPending ==
    /\ \A i \in 1..Len(poll.responses) :
          poll.responses[i].status \in {0, 1, 5} => ContinuesOrEnds(i)
    /\ (\E i \in 1..Len(poll.responses) : poll.responses[i].status = 5)
          => PollQueries <= 4

\* C24 witness: four answers of unknown status, and the run has ended.
C24_Witness ==
    /\ PollTerminated
    /\ Len(poll.responses) = 4
    /\ \A i \in 1..4 : poll.responses[i].status = 5

\* C30: once a status query has answered completed (status 2) with an empty
\* generated-image list, that query is the last one and pollTaskCompletion
\* has thrown 'Task completed but no generated images found'.
C30_NoImagesStopsPolling ==
    \A i \in 1..Len(poll.responses) :
        (poll.responses[i].status = 2 /\ poll.responses[i].images = <<>>) =>
            /\ poll.pc = "thrown"
            /\ Len(poll.responses) = i
            /\ PollErrorMessage(poll).cause = "no generated images"

=============================================================================
